---------------------------- MODULE Spec2Model ----------------------------
(***************************************************************************)
(* Model of the workflow invocation endpoint of superagent                 *)
(* (libs/superagent/app/api/workflows.py, function invoke): the streaming  *)
(* building of the plan with its output schemas, the streaming generator   *)
(* send_message, the background run-task it starts, the per-step streaming *)
(* callback (token queue + done event), the telemetry calls, and the       *)
(* synchronous path taken when streaming is not enabled.                   *)
(*                                                                         *)
(* Text is modelled at the level of JSON lexemes: a string is a sequence   *)
(* of lexemes "{", "}", "k:" (an object key with its colon), "s" (a string *)
(* literal), " " and "\n" (whitespace), and "x", "y" (plain words).  A     *)
(* token put on a step's queue is a non-empty such sequence.               *)
(*                                                                         *)
(* Steps are identified by their plan position; the code tags stream       *)
(* events with the step's agent_name, which the model takes to be distinct *)
(* per step.                                                               *)
(***************************************************************************)
EXTENDS Integers, Sequences, FiniteSets, TLC

\* Largest plan (number of workflow steps) explored.
MaxSteps == 2

(***************************************************************************)
(* Text helpers                                                            *)
(***************************************************************************)

IsWs(c) == c \in {" ", "\n"}

RECURSIVE Concat(_)
\* "".join(tokens): the concatenation of a sequence of strings.
Concat(toks) ==
    IF toks = <<>> THEN <<>> ELSE Head(toks) \o Concat(Tail(toks))

RECURSIVE ParseValue(_)
\* A JSON value over the lexemes, whitespace already skipped:
\*   V ::= "s" | "{" "}" | "{" "k:" V "}"
\* The value is the sequence of keys down to the leaf, <<"s">> or <<"{}">>.
ParseValue(s) ==
    IF s = <<"s">> THEN [ok |-> TRUE, val |-> <<"s">>]
    ELSE IF s = <<"{", "}">> THEN [ok |-> TRUE, val |-> <<"{}">>]
    ELSE IF Len(s) >= 4 /\ s[1] = "{" /\ s[2] = "k:" /\ s[Len(s)] = "}"
         THEN LET inner == ParseValue(SubSeq(s, 3, Len(s) - 1))
              IN  IF inner.ok
                  THEN [ok |-> TRUE, val |-> <<"k">> \o inner.val]
                  ELSE [ok |-> FALSE, val |-> <<>>]
    ELSE [ok |-> FALSE, val |-> <<>>]

\* SimpleJsonOutputParser().parse(text): strips the text and reads it as
\* JSON (whitespace between lexemes is insignificant); raises on bad text.
JsonParse(text) == ParseValue(SelectSeq(text, LAMBDA c : ~IsWs(c)))

\* The empty dict {} the code falls back to.
EmptyDict == <<"{}">>

\* Mutant of ParsedRes: text that does not parse is passed on as a string.
ParsedResKeepsText(text) ==
    IF JsonParse(text).ok THEN JsonParse(text).val ELSE <<"s">>

\* try: parsed_res = parser.parse(schema_tokens) / except: parsed_res = {}
ParsedRes(text) ==
    IF JsonParse(text).ok THEN JsonParse(text).val ELSE EmptyDict

RECURSIVE JsonDumps(_)
\* json.dumps(value) with the default separators (", " and ": "), no indent.
JsonDumps(val) ==
    IF val = <<"s">> THEN <<"s">>
    ELSE IF val = <<"{}">> THEN <<"{", "}">>
    ELSE <<"{", "k:", " ">> \o JsonDumps(Tail(val)) \o <<"}">>

RECURSIVE SplitLines(_)
\* text.split("\n"): the pieces between newlines, at least one piece.
SplitLines(text) ==
    IF \A i \in 1..Len(text) : text[i] # "\n" THEN <<text>>
    ELSE LET p == CHOOSE i \in 1..Len(text) :
                      text[i] = "\n" /\ \A j \in 1..(i - 1) : text[j] # "\n"
         IN  <<SubSeq(text, 1, p - 1)>>
                 \o SplitLines(SubSeq(text, p + 1, Len(text)))

(***************************************************************************)
(* What the external collaborators may produce                             *)
(***************************************************************************)

\* The fragment sequences a step's producer may emit before it completes.
Scripts ==
    { << <<"x">>, <<"y">> >>,
      << <<"{", "k:">>, <<"s", "}">> >>,
      << <<"{", "x">> >> }

IsPrefix(p, s) == Len(p) <= Len(s) /\ SubSeq(s, 1, Len(p)) = p

\* The intermediate_steps a step result may carry: (tool, tool_input,
\* tool_response) triples; "" stands for a missing (falsy) value and "obj"
\* for arguments json cannot serialize.
Traces ==
    { <<>>,
      << [tool |-> "search", tool_input |-> "q", response |-> "r"],
         [tool |-> "now", tool_input |-> "", response |-> "r"] >>,
      << [tool |-> "lookup", tool_input |-> "obj", response |-> "r"] >> }

\* Whether json.dumps(args) returns; "obj" stands for arguments holding a
\* value json cannot serialize, for which it raises TypeError.
Serializable(args) == args # "obj"

\* The text of that TypeError.
DumpsErrorText == "not JSON serializable"

\* The text of the exception a failing step raises.
ErrorText == "boom"

\* agent_data.outputSchema: none, or the schema the agent declares.
AgentSchemas == {"", "A"}

\* body.outputSchemas.get(step.id): none, or the caller's schema for the step.
StepOverrides == {"", "P"}

\* body.outputSchema: none, or the caller's schema for the run.
RunSchemas == {"", "R"}

(***************************************************************************)
(* State                                                                   *)
(***************************************************************************)

VARIABLES
    workflow_data,      \* per step of the workflow: its agent's outputSchema
    output_schemas,     \* body.outputSchemas: per step, the caller's override
    last_output_schema, \* body.outputSchema: the caller's run-level schema
    workflow_steps,     \* the plan: per step, the output_schema it runs with
    enable_streaming,   \* body.enableStreaming
    SEGMENT_WRITE_KEY,  \* whether the telemetry sink is configured
    queue,              \* per step: the streaming callback's token queue
    done,               \* per step: the streaming callback's done event
    produced,           \* per step: every token its producer has put (history)
    task,               \* the run-task started by ensure_future(workflow.arun)
    pc,                 \* where send_message is
    cur,                \* the step the drain loop is at; n+1 once it is over
    index,              \* the step result the second loop is at
    tr,                 \* next entry of the step's intermediate_steps
    schema_tokens,      \* text accumulated for a step with an output schema
    out,                \* the events yielded so far, in order
    tracked,            \* the telemetry records emitted so far, in order
    closed_at,          \* steps resolved when the consumer closed; -1: open
    closed_running      \* whether the run-task was running at that point

vars == <<workflow_data, output_schemas, last_output_schema, workflow_steps,
          enable_streaming, SEGMENT_WRITE_KEY, queue, done, produced, task,
          pc, cur, index, tr, schema_tokens, out, tracked, closed_at,
          closed_running>>

n == Len(workflow_steps)

Steps == 1..n

\* None, "": no schema.
NoSchema == ""

\* Whether step i of the plan runs with an output schema.
HasSchema(i) == workflow_steps[i].output_schema # NoSchema

\* {"id": agent_name, "data": token}, yielded for a step without a schema.
TokenEvent(i, tok) == [kind |-> "token", step |-> i, data |-> tok]

\* {"id": agent_name, "data": line}, yielded for a step with a schema.
LineEvent(i, line) == [kind |-> "line", step |-> i, data |-> line]

\* {"event": "function_call", "data": {step_name, function, args, response}}
FunctionCallEvent(i, call) ==
    [kind |-> "function_call", step |-> i, data |-> <<call.tool, call.tool_input>>]

\* "event: error\ndata: {error}\n\n"
ErrorEvent(error) == [kind |-> "error", step |-> 0, data |-> <<error>>]

\* track_agent_invocation of a step result with its cost counters.
SuccessRecord(i) ==
    [step |-> i, error |-> "", status_code |-> 0, result |-> TRUE, cost |-> TRUE]

\* Mutant of FailureRecord: the record also carries the cost counters.
FailureRecordWithCost(i, error) ==
    [step |-> i, error |-> error, status_code |-> 500, result |-> FALSE,
     cost |-> TRUE]

\* track_agent_invocation with the error text and status_code 500.
FailureRecord(i, error) ==
    [step |-> i, error |-> error, status_code |-> 500, result |-> FALSE,
     cost |-> FALSE]

\* The state once the plan of a request without schema overrides is built:
\* every step runs with the schema its agent declares.
Init ==
    /\ workflow_data \in UNION { [1..k -> AgentSchemas] : k \in 1..MaxSteps }
    /\ output_schemas = [i \in DOMAIN workflow_data |-> NoSchema]
    /\ last_output_schema = NoSchema
    /\ workflow_steps =
          [i \in DOMAIN workflow_data |-> [output_schema |-> workflow_data[i]]]
    /\ enable_streaming \in BOOLEAN
    /\ SEGMENT_WRITE_KEY \in BOOLEAN
    /\ queue = [i \in Steps |-> <<>>]
    /\ done = [i \in Steps |-> FALSE]
    /\ produced = [i \in Steps |-> <<>>]
    /\ task = [state |-> "pending", step |-> 0, steps |-> <<>>]
    /\ pc = "start"
    /\ cur = 0
    /\ index = 0
    /\ tr = 0
    /\ schema_tokens = <<>>
    /\ out = <<>>
    /\ tracked = <<>>
    /\ closed_at = -1
    /\ closed_running = FALSE

(***************************************************************************)
(* Building the plan                                                       *)
(***************************************************************************)

\* Mutant of OutputSchemaOf: the run-level schema is looked at first.
OutputSchemaRunLevelFirst(idx) ==
    IF last_output_schema # NoSchema /\ idx = Len(workflow_data) - 1
    THEN last_output_schema
    ELSE IF output_schemas[idx + 1] # NoSchema
    THEN output_schemas[idx + 1]
    ELSE workflow_data[idx + 1]

\* The output_schema of the step at (0-based) position idx:
\*   output_schema = agent_data.outputSchema
\*   if output_schemas.get(step.id): output_schema = output_schemas[step.id]
\*   elif last_output_schema and idx == len(workflow_data.steps) - 1:
\*       output_schema = last_output_schema
OutputSchemaOf(idx) ==
    IF output_schemas[idx + 1] # NoSchema
    THEN output_schemas[idx + 1]
    ELSE IF last_output_schema # NoSchema /\ idx = Len(workflow_data) - 1
    THEN last_output_schema
    ELSE workflow_data[idx + 1]

\* The request arrives: nothing of the plan is built yet.
PlanInit ==
    /\ workflow_data \in UNION { [1..k -> AgentSchemas] : k \in 1..MaxSteps }
    /\ output_schemas \in [DOMAIN workflow_data -> StepOverrides]
    /\ last_output_schema \in RunSchemas
    /\ workflow_steps = <<>>
    /\ enable_streaming \in BOOLEAN
    /\ SEGMENT_WRITE_KEY \in BOOLEAN
    /\ queue = <<>>
    /\ done = <<>>
    /\ produced = <<>>
    /\ task = [state |-> "pending", step |-> 0, steps |-> <<>>]
    /\ pc = "build"
    /\ cur = 0
    /\ index = 0
    /\ tr = 0
    /\ schema_tokens = <<>>
    /\ out = <<>>
    /\ tracked = <<>>
    /\ closed_at = -1
    /\ closed_running = FALSE

\* One round of "for idx, step in enumerate(workflow_data.steps)": the item
\* of the step, with its streaming callback, is appended to workflow_steps.
BuildStep ==
    /\ pc = "build"
    /\ Len(workflow_steps) < Len(workflow_data)
    /\ workflow_steps' =
          Append(workflow_steps,
                 [output_schema |-> OutputSchemaOf(Len(workflow_steps))])
    /\ queue' = Append(queue, <<>>)
    /\ done' = Append(done, FALSE)
    /\ produced' = Append(produced, <<>>)
    /\ UNCHANGED <<workflow_data, output_schemas, last_output_schema,
                   enable_streaming, SEGMENT_WRITE_KEY, task, pc, cur, index,
                   tr, schema_tokens, out, tracked, closed_at, closed_running>>

\* The loop is over: the plan is complete.
BuildDone ==
    /\ pc = "build"
    /\ Len(workflow_steps) = Len(workflow_data)
    /\ pc' = "start"
    /\ UNCHANGED <<workflow_data, output_schemas, last_output_schema,
                   workflow_steps, enable_streaming, SEGMENT_WRITE_KEY, queue,
                   done, produced, task, cur, index, tr, schema_tokens, out,
                   tracked, closed_at, closed_running>>

PlanNext == BuildStep \/ BuildDone

PlanSpec == PlanInit /\ [][PlanNext]_vars

(***************************************************************************)
(* The run-task: workflow.arun(input), one step after the other            *)
(***************************************************************************)

\* Mutant of AllDone: the done events are left as they are.
DoneAsIs == done

\* for step in workflow_steps: done.set()
AllDone == [i \in Steps |-> TRUE]

\* The producer of the running step puts its next token on the step's queue
\* (the step has a streaming callback only if enable_streaming).
TaskProduce ==
    /\ task.state = "running"
    /\ enable_streaming
    /\ LET i == task.step IN
       \E s \in Scripts :
          /\ Len(s) > Len(produced[i])
          /\ IsPrefix(produced[i], s)
          /\ LET tok == s[Len(produced[i]) + 1] IN
             /\ queue' = [queue EXCEPT ![i] = Append(@, tok)]
             /\ produced' = [produced EXCEPT ![i] = Append(@, tok)]
    /\ UNCHANGED <<workflow_data, output_schemas, last_output_schema,
                   workflow_steps, enable_streaming, SEGMENT_WRITE_KEY,
                   done, task, pc, cur, index, tr,
                   schema_tokens, out, tracked, closed_at,
                   closed_running>>

\* The running step completes: its fragment sequence is signalled complete,
\* its result is appended, and the next step (if any) is launched.
TaskStepDone ==
    /\ task.state = "running"
    /\ enable_streaming => produced[task.step] \in Scripts
    /\ \E t \in Traces :
          task' = [state |-> IF task.step = n THEN "done" ELSE "running",
                   step |-> IF task.step = n THEN task.step ELSE task.step + 1,
                   steps |-> Append(task.steps, [intermediate_steps |-> t])]
    /\ done' = IF enable_streaming THEN [done EXCEPT ![task.step] = TRUE]
               ELSE done
    /\ UNCHANGED <<workflow_data, output_schemas, last_output_schema,
                   workflow_steps, enable_streaming, SEGMENT_WRITE_KEY,
                   queue, produced, pc, cur, index,
                   tr, schema_tokens, out, tracked, closed_at,
                   closed_running>>

\* The running step fails: its fragment sequence is signalled complete, the
\* run-task raises, and no later step is launched.
TaskStepFail ==
    /\ task.state = "running"
    /\ task' = [task EXCEPT !.state = "failed"]
    /\ done' = IF enable_streaming THEN [done EXCEPT ![task.step] = TRUE]
               ELSE done
    /\ UNCHANGED <<workflow_data, output_schemas, last_output_schema,
                   workflow_steps, enable_streaming, SEGMENT_WRITE_KEY,
                   queue, produced, pc, cur, index,
                   tr, schema_tokens, out, tracked, closed_at,
                   closed_running>>

TaskNext == TaskProduce \/ TaskStepDone \/ TaskStepFail

(***************************************************************************)
(* send_message: the streaming generator                                   *)
(***************************************************************************)

\* task = asyncio.ensure_future(workflow.arun(input)), then the first
\* iteration of the loop over workflow_steps.
Start ==
    /\ pc = "start"
    /\ enable_streaming
    /\ task' = [state |-> "running", step |-> 1, steps |-> <<>>]
    /\ pc' = "drain"
    /\ cur' = 1
    /\ schema_tokens' = <<>>
    /\ UNCHANGED <<workflow_data, output_schemas, last_output_schema,
                   workflow_steps, enable_streaming, SEGMENT_WRITE_KEY,
                   queue, done, produced,
                   index, tr, out, tracked, closed_at,
                   closed_running>>

\* Mutant of DrainableSteps: the loop reads whichever queue has a token.
DrainableStepsAny == Steps

\* The steps whose queue the loop reads in this iteration: the current one.
DrainableSteps == {cur}

\* Mutant of ForwardsRaw: the schema test is inverted.
ForwardsRawInverted(i) == workflow_steps[i].output_schema # NoSchema

\* Mutant of ForwardsRaw: the schema test is dropped.
ForwardsRawAlways(i) == TRUE

\* if not output_schema: the token is yielded as it is.
ForwardsRaw(i) == workflow_steps[i].output_schema = NoSchema

\* Mutant of Accumulate: the token replaces the text instead of extending it.
AccumulateLast(text, tok) == tok

\* schema_tokens += token
Accumulate(text, tok) == text \o tok

\* aiter() ends: nothing left in the queue and the done event is set.
Exhausted(i) == queue[i] = <<>> /\ done[i]

\* Mutant of DrainToken: tokens are taken only once the run-task is over.
DrainTokenAfterRun ==
    /\ pc = "drain"
    /\ task.state \in {"done", "failed"}
    /\ \E i \in DrainableSteps :
          /\ queue[i] # <<>>
          /\ queue' = [queue EXCEPT ![i] = Tail(@)]
          /\ IF ForwardsRaw(i)
             THEN /\ out' = Append(out, TokenEvent(i, Head(queue[i])))
                  /\ UNCHANGED schema_tokens
             ELSE /\ schema_tokens' = Accumulate(schema_tokens, Head(queue[i]))
                  /\ UNCHANGED out
    /\ UNCHANGED <<workflow_data, output_schemas, last_output_schema,
                   workflow_steps, enable_streaming, SEGMENT_WRITE_KEY, done,
                   produced, task, pc, cur, index, tr, tracked, closed_at,
                   closed_running>>

\* One turn of "async for token in ...aiter()": a token is taken from the
\* queue and either yielded or added to schema_tokens.
DrainToken ==
    /\ pc = "drain"
    /\ \E i \in DrainableSteps :
          /\ queue[i] # <<>>
          /\ queue' = [queue EXCEPT ![i] = Tail(@)]
          /\ IF ForwardsRaw(i)
             THEN /\ out' = Append(out, TokenEvent(i, Head(queue[i])))
                  /\ UNCHANGED schema_tokens
             ELSE /\ schema_tokens' = Accumulate(schema_tokens, Head(queue[i]))
                  /\ UNCHANGED out
    /\ UNCHANGED <<workflow_data, output_schemas, last_output_schema,
                   workflow_steps, enable_streaming, SEGMENT_WRITE_KEY,
                   done, produced, task, pc,
                   cur, index, tr, tracked, closed_at,
                   closed_running>>

\* The lines yielded for a step with a schema once its tokens are in.
SchemaLines(i, text) ==
    LET lines == SplitLines(JsonDumps(ParsedRes(text)))
    IN  [l \in 1..Len(lines) |-> LineEvent(i, lines[l])]

\* aiter() of the current step ends; a step with a schema has its text
\* parsed and yielded line by line; the loop goes on to the next step, or
\* leaves for "await task".
DrainEnd ==
    /\ pc = "drain"
    /\ Exhausted(cur)
    /\ out' = IF HasSchema(cur)
              THEN out \o SchemaLines(cur, schema_tokens)
              ELSE out
    /\ schema_tokens' = <<>>
    /\ cur' = cur + 1
    /\ pc' = IF cur < n THEN "drain" ELSE "await"
    /\ UNCHANGED <<workflow_data, output_schemas, last_output_schema,
                   workflow_steps, enable_streaming, SEGMENT_WRITE_KEY,
                   queue, done, produced,
                   task, index, tr, tracked, closed_at,
                   closed_running>>

\* Mutant of AtAwaitTask: the run-task's outcome is taken as soon as it is
\* there, without waiting for the drain loop to end.
AtAwaitTaskEarly == pc \in {"drain", "await"}

\* The generator is at "await task".
AtAwaitTask == pc = "await"

\* await task returns; workflow_result = task.result(); the loop over the
\* step results starts.
AwaitOk ==
    /\ AtAwaitTask
    /\ task.state = "done"
    /\ pc' = "post"
    /\ index' = 1
    /\ tr' = 0
    /\ UNCHANGED <<workflow_data, output_schemas, last_output_schema,
                   workflow_steps, enable_streaming, SEGMENT_WRITE_KEY,
                   queue, done, produced,
                   task, cur, schema_tokens, out, tracked, closed_at,
                   closed_running>>

\* Mutant of AwaitErr: the exception is not caught, only the finally block
\* runs and the exception leaves the generator.
AwaitErrEscapes ==
    /\ AtAwaitTask
    /\ task.state = "failed"
    /\ done' = AllDone
    /\ pc' = "raised"
    /\ UNCHANGED <<workflow_data, output_schemas, last_output_schema,
                   workflow_steps, enable_streaming, SEGMENT_WRITE_KEY,
                   queue, produced,
                   task, cur, index, tr, schema_tokens, out, tracked,
                   closed_at, closed_running>>

\* await task raises the run-task's exception; except Exception yields the
\* error event.
AwaitErr ==
    /\ AtAwaitTask
    /\ task.state = "failed"
    /\ out' = Append(out, ErrorEvent(ErrorText))
    /\ pc' = "error"
    /\ UNCHANGED <<workflow_data, output_schemas, last_output_schema,
                   workflow_steps, enable_streaming, SEGMENT_WRITE_KEY,
                   queue, done, produced,
                   task, cur, index, tr, schema_tokens, tracked, closed_at,
                   closed_running>>

\* str(error) of the exception the handler caught: the text it has just
\* yielded in the error event.
CaughtError == out[Len(out)].data[1]

\* Mutant of ErrorTrack: the error event is yielded once more.
ErrorTrackYieldsAgain ==
    /\ pc = "error"
    /\ out' = Append(out, ErrorEvent(ErrorText))
    /\ tracked' = IF SEGMENT_WRITE_KEY
                  THEN tracked \o [i \in Steps |-> FailureRecord(i, CaughtError)]
                  ELSE tracked
    /\ done' = AllDone
    /\ pc' = "finished"
    /\ UNCHANGED <<workflow_data, output_schemas, last_output_schema,
                   workflow_steps, enable_streaming, SEGMENT_WRITE_KEY,
                   queue, produced, task,
                   cur, index, tr, schema_tokens, closed_at,
                   closed_running>>

\* After the error event: a failure record for every workflow step when the
\* sink is configured, then the finally block.
ErrorTrack ==
    /\ pc = "error"
    /\ tracked' = IF SEGMENT_WRITE_KEY
                  THEN tracked \o [i \in Steps |-> FailureRecord(i, CaughtError)]
                  ELSE tracked
    /\ done' = AllDone
    /\ pc' = "finished"
    /\ UNCHANGED <<workflow_data, output_schemas, last_output_schema,
                   workflow_steps, enable_streaming, SEGMENT_WRITE_KEY,
                   queue, produced, task,
                   cur, index, tr, schema_tokens, out, closed_at,
                   closed_running>>

\* Mutant of TrackInvocation: only the first workflow step is recorded.
TrackInvocationOfFirst == <<SuccessRecord(1)>>

\* track_invocation(output): one record for every workflow step.
TrackInvocation == [i \in Steps |-> SuccessRecord(i)]

\* Top of the loop over the step results, for step index:
\* if SEGMENT_WRITE_KEY: track_invocation(workflow_result).
PostTrack ==
    /\ pc = "post"
    /\ tr = 0
    /\ tracked' = IF SEGMENT_WRITE_KEY THEN tracked \o TrackInvocation
                  ELSE tracked
    /\ tr' = 1
    /\ UNCHANGED <<workflow_data, output_schemas, last_output_schema,
                   workflow_steps, enable_streaming, SEGMENT_WRITE_KEY,
                   queue, done, produced,
                   task, pc, cur, index, schema_tokens, out, closed_at,
                   closed_running>>

\* Mutant of Emits: only the tool name is tested.
EmitsNamed(call) == call.tool # ""

\* if function and args: only then is the call yielded.
Emits(call) == call.tool # "" /\ call.tool_input # ""

\* One entry of the step's intermediate_steps.
PostCall ==
    /\ pc = "post"
    /\ tr >= 1
    /\ tr <= Len(task.steps[index].intermediate_steps)
    /\ LET call == task.steps[index].intermediate_steps[tr] IN
       /\ Emits(call) => Serializable(call.tool_input)
       /\ out' = IF Emits(call)
                 THEN Append(out, FunctionCallEvent(index, call))
                 ELSE out
    /\ tr' = tr + 1
    /\ UNCHANGED <<workflow_data, output_schemas, last_output_schema,
                   workflow_steps, enable_streaming, SEGMENT_WRITE_KEY,
                   queue, done, produced,
                   task, pc, cur, index, schema_tokens, tracked, closed_at,
                   closed_running>>

\* json.dumps(args) raises while the function_call event of an entry is
\* built: except Exception yields the error event.
PostFail ==
    /\ pc = "post"
    /\ tr >= 1
    /\ tr <= Len(task.steps[index].intermediate_steps)
    /\ LET call == task.steps[index].intermediate_steps[tr] IN
       Emits(call) /\ ~Serializable(call.tool_input)
    /\ out' = Append(out, ErrorEvent(DumpsErrorText))
    /\ pc' = "error"
    /\ UNCHANGED <<workflow_data, output_schemas, last_output_schema,
                   workflow_steps, enable_streaming, SEGMENT_WRITE_KEY, queue,
                   done, produced, task, cur, index, tr, schema_tokens,
                   tracked, closed_at, closed_running>>

\* Mutant of PostNext: the loop stays at the same step result.
PostNextRepeats ==
    /\ pc = "post"
    /\ tr > Len(task.steps[index].intermediate_steps)
    /\ tr' = 0
    /\ UNCHANGED <<workflow_data, output_schemas, last_output_schema,
                   workflow_steps, enable_streaming, SEGMENT_WRITE_KEY, queue,
                   done, produced, task, pc, cur, index, schema_tokens, out,
                   tracked, closed_at, closed_running>>

\* The step's intermediate_steps are through: the next step result, or the
\* end of the try block and the finally block.
PostNext ==
    /\ pc = "post"
    /\ tr > Len(task.steps[index].intermediate_steps)
    /\ IF index < n
       THEN index' = index + 1 /\ tr' = 0 /\ pc' = "post" /\ UNCHANGED done
       ELSE index' = index /\ tr' = tr /\ pc' = "finished" /\ done' = AllDone
    /\ UNCHANGED <<workflow_data, output_schemas, last_output_schema,
                   workflow_steps, enable_streaming, SEGMENT_WRITE_KEY,
                   queue, produced, task,
                   cur, schema_tokens, out, tracked, closed_at,
                   closed_running>>

GenNext ==
    \/ Start
    \/ DrainToken
    \/ DrainEnd
    \/ AwaitOk
    \/ AwaitErr
    \/ ErrorTrack
    \/ PostTrack
    \/ PostCall
    \/ PostFail
    \/ PostNext

\* The generator is suspended: at a yield, in aiter(), or at "await task".
Suspended ==
    \/ pc \in {"drain", "await", "error"}
    \/ /\ pc = "post"
       /\ tr >= 2
       /\ Emits(task.steps[index].intermediate_steps[tr - 1])

\* The consumer goes away: the generator is closed (or cancelled) where it
\* is suspended.  GeneratorExit and CancelledError are no Exception, so only
\* the finally block runs.  The run-task is a task of its own.
ConsumerClose ==
    /\ Suspended
    /\ done' = AllDone
    /\ pc' = "closed"
    /\ closed_at' = Len(task.steps)
    /\ closed_running' = (task.state = "running")
    /\ UNCHANGED <<workflow_data, output_schemas, last_output_schema,
                   workflow_steps, enable_streaming, SEGMENT_WRITE_KEY,
                   queue, produced, task,
                   cur, index, tr, schema_tokens, out, tracked>>

(***************************************************************************)
(* The synchronous path of invoke (streaming not enabled)                  *)
(***************************************************************************)

\* output = await workflow.arun(input): the run starts.
SyncStart ==
    /\ pc = "start"
    /\ ~enable_streaming
    /\ task' = [state |-> "running", step |-> 1, steps |-> <<>>]
    /\ pc' = "sync_await"
    /\ UNCHANGED <<workflow_data, output_schemas, last_output_schema,
                   workflow_steps, enable_streaming, SEGMENT_WRITE_KEY, queue,
                   done, produced, cur, index, tr, schema_tokens, out,
                   tracked, closed_at, closed_running>>

\* The run returned its output: if SEGMENT_WRITE_KEY: track_invocation(output).
SyncTrack ==
    /\ pc = "sync_await"
    /\ task.state = "done"
    /\ tracked' = IF SEGMENT_WRITE_KEY THEN tracked \o TrackInvocation
                  ELSE tracked
    /\ pc' = "sync_tracked"
    /\ UNCHANGED <<workflow_data, output_schemas, last_output_schema,
                   workflow_steps, enable_streaming, SEGMENT_WRITE_KEY, queue,
                   done, produced, task, cur, index, tr, schema_tokens, out,
                   closed_at, closed_running>>

\* The session is ended and {"success": True, "data": output} is returned.
SyncReturn ==
    /\ pc = "sync_tracked"
    /\ pc' = "returned"
    /\ UNCHANGED <<workflow_data, output_schemas, last_output_schema,
                   workflow_steps, enable_streaming, SEGMENT_WRITE_KEY, queue,
                   done, produced, task, cur, index, tr, schema_tokens, out,
                   tracked, closed_at, closed_running>>

\* The run raised: nothing catches the exception in invoke, it goes to the
\* caller (the framework answers with an error).
SyncRaise ==
    /\ pc = "sync_await"
    /\ task.state = "failed"
    /\ pc' = "raised"
    /\ UNCHANGED <<workflow_data, output_schemas, last_output_schema,
                   workflow_steps, enable_streaming, SEGMENT_WRITE_KEY, queue,
                   done, produced, task, cur, index, tr, schema_tokens, out,
                   tracked, closed_at, closed_running>>

SyncNext == SyncStart \/ SyncTrack \/ SyncReturn \/ SyncRaise

Next == GenNext \/ TaskNext \/ ConsumerClose \/ SyncNext

Spec == Init /\ [][Next]_vars

(***************************************************************************)
(* Vocabulary of the properties                                            *)
(***************************************************************************)

\* A token or parsed-line event.
IsFragment(e) == e.kind \in {"token", "line"}

\* The positions of the stream that hold a fragment of step i.
FragmentsOf(i) == {p \in DOMAIN out : IsFragment(out[p]) /\ out[p].step = i}

\* The data of step i's fragments in the stream, in stream order.
StreamedData(i) ==
    LET mine == SelectSeq(out, LAMBDA e : IsFragment(e) /\ e.step = i)
    IN  [p \in 1..Len(mine) |-> mine[p].data]

ErrorPositions == {p \in DOMAIN out : out[p].kind = "error"}

\* The number of telemetry records emitted for step i.
Records(i) == Cardinality({p \in DOMAIN tracked : tracked[p].step = i})

\* The drain loop is through with step i.
Drained(i) == cur > i

\* The run-task failed, at step task.step.
Failed == task.state = "failed"

\* The generator has ended by itself (not closed by the consumer).
Ended == pc = "finished"

(***************************************************************************)
(* C1..C10                                                                 *)
(***************************************************************************)

\* C1: when a streaming run in which no step failed has ended and the
\* telemetry sink is configured, exactly one telemetry record has been
\* emitted for each step of the plan.
C1_OneRecordPerStep ==
    (Ended /\ task.state = "done" /\ SEGMENT_WRITE_KEY)
        => \A i \in Steps : Records(i) = 1

\* C2: in a streaming run, once the run-task has failed, the generator is
\* never stuck: until it has ended (or was closed) it can always take a
\* step, so the failure reaches the error event and the stream ends,
\* whatever step the failure is at.
C2_FailureNeverBlocksDrain ==
    (enable_streaming /\ Failed /\ pc \notin {"finished", "closed"})
        => ENABLED GenNext

\* C3: in the stream, no fragment (token or parsed line) of a later step
\* comes before a fragment of an earlier step.
C3_NoInterleavingAcrossSteps ==
    \A p, q \in DOMAIN out :
        (p < q /\ IsFragment(out[p]) /\ IsFragment(out[q]))
            => out[p].step <= out[q].step

\* Witness of C3: fragments of two steps are in the stream.
C3_Witness ==
    /\ n >= 2
    /\ FragmentsOf(1) # {}
    /\ FragmentsOf(2) # {}

\* C4: when the run-task of a streaming run failed at step k, the sink is
\* configured and the generator (not closed by the consumer) can do nothing more, there is
\* exactly one telemetry record for each of the steps 1..k and none for the
\* steps k+1..n.
C4_FailureRecordsUpToK ==
    (enable_streaming /\ Failed /\ SEGMENT_WRITE_KEY /\ pc # "closed"
        /\ ~ENABLED GenNext)
        => /\ \A i \in 1..task.step : Records(i) = 1
           /\ \A i \in (task.step + 1)..n : Records(i) = 0

C6_RecordsDespiteDisconnect ==
    (pc = "closed" /\ SEGMENT_WRITE_KEY /\ ~ENABLED Next)
        => \A i \in 1..closed_at : Records(i) >= 1

\* C7: when the stream was closed with steps 1..k resolved and step k+1 in
\* progress, and nothing more can happen, there is exactly one record for
\* each of the steps 1..k, none for the others, and no failure record.
C7_CancelRecordsResolvedSteps ==
    (pc = "closed" /\ SEGMENT_WRITE_KEY /\ closed_at >= 1 /\ closed_at < n
        /\ closed_running /\ ~ENABLED Next)
        => /\ \A i \in 1..closed_at : Records(i) = 1
           /\ \A i \in (closed_at + 1)..n : Records(i) = 0
           /\ \A p \in DOMAIN tracked : tracked[p].status_code # 500

\* C8: once the stream is closed, every fragment sequence is complete, the
\* run-task is not running and it has resolved no further step.
C8_CancelStopsRunTask ==
    pc = "closed" =>
        /\ \A i \in Steps : done[i]
        /\ task.state # "running"
        /\ Len(task.steps) = closed_at

\* C9: a step with a schema has none of its tokens in the stream; its parsed
\* lines are those of the whole text its producer emitted, they are in the
\* stream only when its fragment sequence is exhausted, and no fragment of a
\* later step comes before them.
C9_SchemaStepBuffered ==
    \A p \in DOMAIN out :
        (IsFragment(out[p]) /\ HasSchema(out[p].step))
            => LET i == out[p].step IN
               /\ out[p].kind = "line"
               /\ done[i] /\ queue[i] = <<>>
               /\ StreamedData(i) =
                     SplitLines(JsonDumps(ParsedRes(Concat(produced[i]))))
               /\ \A q \in 1..(p - 1) :
                     IsFragment(out[q]) => out[q].step <= i

\* Witness of C9: a step with a schema produced tokens, its parsed line is in
\* the stream, and a fragment of the next step follows it.
C9_Witness ==
    /\ n >= 2
    /\ HasSchema(1)
    /\ Len(produced[1]) = 2
    /\ FragmentsOf(1) # {}
    /\ FragmentsOf(2) # {}

\* The text step i's producer emitted does not parse.
Malformed(i) == ~JsonParse(Concat(produced[i])).ok

\* C10: once a step with a schema whose text does not parse is drained, the
\* stream holds exactly one fragment of that step, the empty object; an error
\* event is in the stream only if the run-task failed or, after the drain,
\* json.dumps failed on the arguments of a tool invocation; and the step is
\* drained as soon as that fragment is in the stream (the loop has gone on).
C10_ParseFailureIsSoft ==
    \A i \in Steps :
        (HasSchema(i) /\ Malformed(i))
            => /\ Drained(i) =>
                    /\ StreamedData(i) = <<JsonDumps(EmptyDict)>>
                    /\ \A p \in FragmentsOf(i) : out[p].kind = "line"
                    /\ \A p \in ErrorPositions :
                          Failed \/ out[p].data = <<DumpsErrorText>>
               /\ FragmentsOf(i) # {} => Drained(i)

\* Witness of C10: a step with a schema emitted text that does not parse,
\* the run did not fail, and a fragment of the next step is in the stream.
C10_Witness ==
    /\ n >= 2
    /\ HasSchema(1)
    /\ produced[1] = << <<"{", "x">> >>
    /\ Drained(1)
    /\ FragmentsOf(2) # {}
    /\ task.state = "done"
    /\ pc = "finished"

(***************************************************************************)
(* C11..C20                                                                *)
(***************************************************************************)

\* C11: once a step with a schema whose producer's fragments concatenate to
\* text that parses is drained, the concatenation of the parsed lines in the
\* stream parses again, to the value of the text the producer emitted,
\* however the text was split into fragments.
C11_ParsedLinesRoundTrip ==
    \A i \in Steps :
        (HasSchema(i) /\ Drained(i) /\ ~Malformed(i))
            => /\ JsonParse(Concat(StreamedData(i))).ok
               /\ JsonParse(Concat(StreamedData(i))).val
                     = JsonParse(Concat(produced[i])).val

\* Witness of C11: a drained step with a schema whose text came in two
\* fragments, neither of which parses alone.
C11_Witness ==
    /\ HasSchema(1)
    /\ Drained(1)
    /\ produced[1] = << <<"{", "k:">>, <<"s", "}">> >>
    /\ StreamedData(1) # <<>>

\* C12: for a step without a schema the tokens in the stream, followed by
\* those still in its queue, are the fragments its producer emitted, in the
\* order of emission; once the step is drained the tokens in the stream are
\* all of them, also when the run-task failed.
C12_TokensAsProduced ==
    \A i \in Steps :
        workflow_steps[i].output_schema = NoSchema
            => /\ StreamedData(i) \o queue[i] = produced[i]
               /\ Drained(i) => StreamedData(i) = produced[i]
               /\ \A p \in FragmentsOf(i) : out[p].kind = "token"

\* Witness of C12: a step without a schema had its two tokens forwarded and
\* the run-task failed at a later step.
C12_Witness ==
    /\ n >= 2
    /\ workflow_steps[1].output_schema = NoSchema
    /\ Drained(1)
    /\ StreamedData(1) = << <<"x">>, <<"y">> >>
    /\ Failed
    /\ task.step = 2

\* The positions of the stream that hold a function-call event.
CallPositions == {p \in DOMAIN out : out[p].kind = "function_call"}

\* C13: a function-call event is in the stream only when the run-task has
\* completed and every step is drained, and it comes after every token and
\* parsed-line event of the stream.
C13_CallsAfterAllFragments ==
    CallPositions # {}
        => /\ task.state = "done"
           /\ \A i \in Steps : Drained(i)
           /\ \A p \in CallPositions : \A q \in DOMAIN out :
                 IsFragment(out[q]) => q < p

\* Witness of C13: function-call events of two steps follow fragments of two
\* steps.
C13_Witness ==
    /\ n >= 2
    /\ FragmentsOf(1) # {}
    /\ FragmentsOf(2) # {}
    /\ \E p, q \in CallPositions : out[p].step = 1 /\ out[q].step = 2

\* The function-call events of the stream, in stream order.
StreamedCalls == SelectSeq(out, LAMBDA e : e.kind = "function_call")

\* The function-call event of every invocation of step i's trace, in order.
CallsOfStep(i) ==
    LET t == task.steps[i].intermediate_steps
    IN  [j \in 1..Len(t) |-> FunctionCallEvent(i, t[j])]

RECURSIVE AllCalls(_)
\* The function-call events of every invocation recorded by the steps i..n.
AllCalls(i) ==
    IF i > n THEN <<>> ELSE CallsOfStep(i) \o AllCalls(i + 1)

RECURSIVE NonEmptyCalls(_)
\* As AllCalls, without the invocations whose tool name or arguments are
\* empty.
NonEmptyCalls(i) ==
    IF i > n THEN <<>>
    ELSE SelectSeq(CallsOfStep(i),
                   LAMBDA e : e.data[1] # "" /\ e.data[2] # "")
             \o NonEmptyCalls(i + 1)

\* C14 as claimed: after a successful streaming run the function-call events
\* of the stream are those of every recorded tool invocation, whatever its
\* name and arguments, by plan position and then by trace order.
C14_OneCallEventPerInvocation ==
    (Ended /\ task.state = "done" /\ ErrorPositions = {})
        => StreamedCalls = AllCalls(1)

\* C14 as amended: after a successful streaming run the function-call events
\* of the stream are those of the recorded tool invocations whose tool name
\* and arguments are both non-empty, exactly one each, by plan position and
\* then by trace order.
C14_OneCallEventPerNonEmptyInvocation ==
    (Ended /\ task.state = "done" /\ ErrorPositions = {})
        => StreamedCalls = NonEmptyCalls(1)

\* Witness of C14: a successful run of two steps that both recorded an
\* invocation with arguments and one without.
C14_Witness ==
    /\ Ended
    /\ task.state = "done"
    /\ n >= 2
    /\ \A i \in Steps : Len(task.steps[i].intermediate_steps) = 2
    /\ Len(StreamedCalls) = 2

\* A drained schema step whose accumulated text did not parse.
ParseFailed(i) == HasSchema(i) /\ Drained(i) /\ Malformed(i)

C16_ErrorEventIsLast ==
    /\ Cardinality(ErrorPositions) <= 1
    /\ \A p \in ErrorPositions : p = Len(out)

C16_Witness ==
    /\ Ended
    /\ Len(out) >= 3
    /\ out[Len(out)].kind = "error"
    /\ IsFragment(out[1])

\* C17: whenever the generator is through, by itself (normally or after the
\* error event) or because the consumer closed it, the done event of every
\* step is set.
C17_DoneSetOnExit ==
    pc \in {"finished", "closed"} => \A i \in Steps : done[i]

C17_Witness ==
    /\ pc = "closed"
    /\ n >= 2
    /\ task.state = "running"
    /\ task.step = 1
    /\ \A i \in Steps : done[i]

\* The telemetry records emitted for step i.
RecordsOf(i) == {tracked[p] : p \in {q \in DOMAIN tracked : tracked[q].step = i}}

\* C18: when a streaming run ended through the error event after the
\* run-task failed at step k and the sink is configured, every step has a
\* record: the steps before k, which had resolved, are recorded with their
\* result and usage data and no error, the steps from k on are recorded as
\* failed with the error text.
C18_ErrorRecordsKeepResolvedResults ==
    (Ended /\ Failed /\ SEGMENT_WRITE_KEY)
        => \A i \in Steps :
              /\ RecordsOf(i) # {}
              /\ i < task.step
                    => \A r \in RecordsOf(i) :
                          r.result /\ r.cost /\ r.error = ""
              /\ i >= task.step
                    => \A r \in RecordsOf(i) :
                          r.error = ErrorText /\ r.status_code = 500

\* C19: when a non-streaming invocation has failed at step k and the sink is
\* configured, there is a telemetry record for each of the steps 1..k.
C19_SyncFailureRecordsStartedSteps ==
    (~enable_streaming /\ pc = "raised" /\ SEGMENT_WRITE_KEY)
        => \A i \in 1..task.step : Records(i) >= 1

\* C20: in a non-streaming invocation with the sink configured, no record is
\* emitted before the run has returned its result, and from then on, the
\* moment the response is returned included, there is exactly one record,
\* a success record, for each step of the plan.
C20_SyncOneRecordPerStep ==
    (~enable_streaming /\ SEGMENT_WRITE_KEY)
        => /\ pc \in {"start", "sync_await", "raised"} => tracked = <<>>
           /\ pc \in {"sync_tracked", "returned"}
                 => /\ task.state = "done"
                    /\ \A i \in Steps : RecordsOf(i) = {SuccessRecord(i)}
                    /\ \A i \in Steps : Records(i) = 1

C20_Witness ==
    /\ ~enable_streaming
    /\ SEGMENT_WRITE_KEY
    /\ pc = "returned"
    /\ n >= 2
    /\ Len(tracked) = n

(***************************************************************************)
(* C21..C30                                                                *)
(***************************************************************************)

\* The plan is complete.
Built == pc = "start" /\ Len(workflow_steps) = Len(workflow_data)

\* C21: in a complete plan, a last step whose agent declares an output
\* schema, and for which the caller gave no per-step override, runs with
\* the schema its agent declares, whatever run-level schema the caller gave.
C21_LastStepKeepsOwnSchema ==
    (Built /\ workflow_data[n] # NoSchema /\ output_schemas[n] = NoSchema)
        => workflow_steps[n].output_schema = workflow_data[n]


\* C25: for every step already in the plan: a per-step override of the
\* caller is the step's schema; without one, a step that is not the last
\* runs with the schema its agent declares (never with the run-level
\* schema), and so does the last step when no run-level schema was given.
C25_OverridePrecedence ==
    \A i \in Steps :
        LET s == workflow_steps[i].output_schema IN
        /\ output_schemas[i] # NoSchema => s = output_schemas[i]
        /\ (output_schemas[i] = NoSchema /\ i # Len(workflow_data))
              => s = workflow_data[i] /\ s \notin (RunSchemas \ {NoSchema})
        /\ (output_schemas[i] = NoSchema /\ last_output_schema = NoSchema)
              => s = workflow_data[i]

C25_Witness ==
    /\ Built
    /\ n = 2
    /\ last_output_schema = "R"
    /\ output_schemas = <<"", "P">>
    /\ workflow_data = <<"A", "A">>
    /\ workflow_steps[1].output_schema = "A"
    /\ workflow_steps[2].output_schema = "P"


\* C22: whenever the drain loop is at a step whose queue holds a token, the
\* token can be taken (and, for a step without a schema, yielded) at once,
\* whatever the state of the run-task: forwarding never waits for the run.
C22_ForwardingNeverWaitsForRun ==
    (pc = "drain" /\ cur \in Steps /\ queue[cur] # <<>>) => ENABLED DrainToken

\* A token of step 1 is in the stream while the run-task is still running
\* step 1 and the later step has not started.
C22_Witness ==
    /\ n >= 2
    /\ task.state = "running"
    /\ task.step = 1
    /\ \E p \in DOMAIN out : out[p].kind = "token" /\ out[p].step = 1
    /\ produced[2] = <<>>


RECURSIVE PostWork(_)
\* The rounds the second loop has left from step result j on, counted from
\* the top of the loop for j: per step result, the telemetry call, one round
\* per entry of intermediate_steps, and the move to the next step result.
PostWork(j) ==
    IF j > n THEN 0
    ELSE Len(task.steps[j].intermediate_steps) + 2 + PostWork(j + 1)

RECURSIVE Queued(_)
\* The tokens waiting in the queues of the steps from i on.
Queued(i) == IF i > n THEN 0 ELSE Len(queue[i]) + Queued(i + 1)

\* What the generator of a run whose run-task is done has left to do.
Rank ==
    CASE pc = "drain" -> PostWork(1) + 2 + (n + 1 - cur) + Queued(1)
      [] pc = "await" -> PostWork(1) + 1
      [] pc = "post" -> PostWork(index) - tr
      [] pc = "error" -> 1
      [] OTHER -> 0

\* C23: in a streaming invocation whose run-task has completed successfully
\* (every producer has then signalled completion), the generator can always
\* go on until the stream has ended, and each of its steps lowers a natural
\* number: under fair scheduling of the generator the stream ends after
\* finitely many events.
C23_StreamTerminates ==
    /\ [](   (enable_streaming /\ task.state = "done"
                /\ pc \notin {"finished", "closed"})
           => ENABLED GenNext)
    /\ [][(task.state = "done" /\ GenNext) => (Rank' < Rank /\ Rank' >= 0)]_vars

\* The stream of a successful run has ended by itself, with events in it.
C23_Witness ==
    /\ Ended
    /\ task.state = "done"
    /\ n >= 2
    /\ \A i \in Steps : produced[i] # <<>>
    /\ Len(out) >= 2


\* C24: a stream that has ended, on the success path or on the error path,
\* has an end-of-run marker as its last event.
C24_EndsWithMarker ==
    Ended => (out # <<>> /\ out[Len(out)].kind = "end")


\* C26: every telemetry record is of one of two shapes.  A record of the
\* streaming failure path (there is an error event, and the generator has
\* ended) carries the text of that error event and status code 500, and
\* neither result nor cost counters; any other record was emitted after the
\* run-task completed and carries the step's result and cost counters, no
\* error text and no failure status.
C26_RecordShapes ==
    \A p \in DOMAIN tracked :
        LET r == tracked[p] IN
        IF r.error # ""
        THEN /\ Ended
             /\ \E e \in ErrorPositions : out[e].data = <<r.error>>
             /\ r.status_code = 500
             /\ ~r.cost
             /\ ~r.result
        ELSE /\ task.state = "done"
             /\ r.result
             /\ r.cost
             /\ r.status_code # 500

\* Records of both shapes have been emitted.
C26_Witness ==
    /\ Ended
    /\ \E p, q \in DOMAIN tracked :
          /\ tracked[p].error = DumpsErrorText
          /\ tracked[q].error = ""
    /\ n >= 2

\* C27: no step has both a success record and a failure record.
C27_NoStepWithBothRecords ==
    \A i \in Steps :
        ~ \E r, f \in RecordsOf(i) : r.result /\ f.status_code = 500

\* C28: once the generator has ended after an error event, or was closed by
\* the consumer, the run-task is not running.
C28_RunTaskOverWhenStreamEnds ==
    ((Ended /\ ErrorPositions # {}) \/ pc = "closed")
        => task.state # "running"

\* C29: in the streaming path a telemetry record exists only once the drain
\* loop is through with every step and the run-task is over, and a success
\* record only once the run-task has completed.
C29_NoRecordBeforeDrainEnds ==
    (enable_streaming /\ tracked # <<>>)
        => /\ \A i \in Steps : Drained(i)
           /\ task.state \in {"done", "failed"}
           /\ (\E p \in DOMAIN tracked : tracked[p].result)
                 => task.state = "done"

\* The first records are there while the second loop is still at work.
C29_Witness ==
    /\ enable_streaming
    /\ pc = "post"
    /\ n >= 2
    /\ index = 1
    /\ Len(tracked) = n
    /\ \A i \in Steps : produced[i] # <<>>

RECURSIVE FragmentsFrom(_)
\* The token and line events of the steps i..n as their fragment sequences
\* and schema settings give them.
FragmentsFrom(i) ==
    IF i > n THEN <<>>
    ELSE (IF HasSchema(i)
          THEN SchemaLines(i, Concat(produced[i]))
          ELSE [p \in 1..Len(produced[i]) |-> TokenEvent(i, produced[i][p])])
             \o FragmentsFrom(i + 1)

\* C30: the stream of a streaming run that ended without any failure is a
\* function of the steps' fragment sequences, schema settings and tool
\* traces alone: the fragments of the steps in plan order, then the
\* function-call events; the interleaving of the run-task with the drain
\* loop does not show in it.
C30_StreamIndependentOfInterleaving ==
    (Ended /\ task.state = "done" /\ ErrorPositions = {})
        => out = FragmentsFrom(1) \o NonEmptyCalls(1)

C30_Witness ==
    /\ Ended
    /\ task.state = "done"
    /\ ErrorPositions = {}
    /\ n >= 2
    /\ HasSchema(1)
    /\ ~HasSchema(2)
    /\ Len(out) >= 5

=============================================================================
